---- MODULE Spec2Model ----
(***************************************************************************)
(* A model of src/programming_analyzer.py: analyze_programming_submission  *)
(* and its helpers.  The text/code oracle (Gemini) and the container       *)
(* engine (Docker) are the environment: every reply of theirs is chosen    *)
(* with \E from a small set of reply shapes.  Scores are Python floats in  *)
(* the code; here they are exact rationals [n, d] in lowest terms.         *)
(***************************************************************************)
EXTENDS Integers, Sequences, FiniteSets, TLC

\* ------------------------------------------------------------------ bounds
MaxProgs == 2
MaxParts == 3
MaxTests == 2
MaxOutputLen == 3
MaxExpectedLen == 2
MaxLabelLen == 3
MaxWords == 4

\* --------------------------------------------------------------- rationals
Abs(x) == IF x < 0 THEN -x ELSE x

RECURSIVE GCD(_, _)
GCD(a, b) == IF b = 0 THEN a ELSE GCD(b, a % b)

Rat(n, d) ==
    LET g == GCD(Abs(n), d)
    IN  IF n = 0 THEN [n |-> 0, d |-> 1] ELSE [n |-> n \div g, d |-> d \div g]

Zero == Rat(0, 1)
One == Rat(1, 1)
RatAdd(a, b) == Rat(a.n * b.d + b.n * a.d, a.d * b.d)
RatDivInt(a, m) == Rat(a.n, a.d * m)
RatLeq(a, b) == a.n * b.d <= b.n * a.d

\* A JSON/Python value held by the local score: a number, or something
\* that is not a number (a string, null, a list).
Num(n, d) == [t |-> "num", n |-> Rat(n, d).n, d |-> Rat(n, d).d]
NonNum == [t |-> "str", n |-> 0, d |-> 1]
AsRat(v) == [n |-> v.n, d |-> v.d]

RECURSIVE SeqSum(_)
SeqSum(s) == IF s = <<>> THEN Zero ELSE RatAdd(s[1], SeqSum(Tail(s)))

Min(a, b) == IF a <= b THEN a ELSE b
Max(a, b) == IF a >= b THEN a ELSE b

\* ----------------------------------------------------------------- strings
\* Oracle labels are sequences of one-character strings, so that strip(),
\* lower(), startswith() and the in test can be computed.
Whitespace == {" ", "\n"}

LowerChar(c) ==
    CASE c = "A" -> "a" [] c = "C" -> "c" [] c = "J" -> "j" [] c = "P" -> "p"
      [] c = "R" -> "r" [] c = "S" -> "s" [] c = "T" -> "t" [] OTHER -> c

Lower(s) == [x \in 1..Len(s) |-> LowerChar(s[x])]

RECURSIVE LStrip(_)
LStrip(s) == IF s # <<>> /\ s[1] \in Whitespace THEN LStrip(Tail(s)) ELSE s

RECURSIVE RStrip(_)
RStrip(s) ==
    IF s # <<>> /\ s[Len(s)] \in Whitespace
    THEN RStrip(SubSeq(s, 1, Len(s) - 1)) ELSE s

Strip(s) == RStrip(LStrip(s))

StartsWith(s, p) == Len(p) <= Len(s) /\ SubSeq(s, 1, Len(p)) = p

Contains(s, p) ==
    \E x \in 0..(Len(s) - Len(p)) : SubSeq(s, x + 1, x + Len(p)) = p

\* ------------------------------- the comparison of lines 278-291
Digits == {"0", "1", "2", "3", "4", "5", "6", "7", "8", "9"}

\* str.isdigit(): not empty, and digits only
IsDigit(s) == s # <<>> /\ \A x \in 1..Len(s) : s[x] \in Digits

\* re.search(r'\d+', s).group(0): the leftmost longest run of digits; the
\* empty sequence stands for no match
FirstDigits(s) ==
    LET at == {x \in 1..Len(s) : s[x] \in Digits} IN
    IF at = {} THEN <<>>
    ELSE LET a == CHOOSE x \in at : \A y \in at : x <= y
             b == CHOOSE y \in a..Len(s) :
                     /\ \A z \in a..y : s[z] \in Digits
                     /\ y = Len(s) \/ s[y + 1] \notin Digits
         IN SubSeq(s, a, b)

\* A slip: the comparison of whole strings is left out.
ExactMatchNever(out, exp) == FALSE

\* line 290
ExactMatch(out, exp) == out = exp

\* lines 279-291: TRUE when the case is counted as passed
Verify(output, expected_output) ==
    LET sanitized_output == Lower(Strip(output))
        sanitized_expected == Lower(Strip(expected_output))
        match == FirstDigits(sanitized_output)
    IN IF IsDigit(sanitized_expected) /\ match # <<>> /\ match = sanitized_expected
       THEN TRUE
       ELSE ExactMatch(sanitized_output, sanitized_expected)

\* ------------------------------- the indicator test of lines 396-420
\* A captured output is here a sequence of words; lower() acts on each.
LowerWord(w) == CASE w = "Prime" -> "prime" [] w = "True" -> "true" [] OTHER -> w

LowerWords(text) == [x \in 1..Len(text) |-> LowerWord(text[x])]

\* lines 403-406
IsPrimeIndicators(affirmative) ==
    IF affirmative
    THEN {<<"is", "prime">>, <<"is", "a", "prime">>, <<"prime", "number">>, <<"true">>}
    ELSE {<<"not", "prime">>, <<"not", "a", "prime">>, <<"composite">>, <<"false">>}

\* lines 400 and 408: the expected value, a text of characters
ExpectedPrime(expected) ==
    Lower(Strip(expected)) \in {<<"t", "r", "u", "e">>, <<"1">>}

\* lines 399-416: result['passed']
MarkedPassed(output, expected) ==
    \E indicator \in IsPrimeIndicators(ExpectedPrime(expected)) :
        Contains(LowerWords(output), indicator)

\* ------------------------------------------------ _detect_language (166-186)
NormalizeLanguage(lang) ==
    IF \E w \in {<<"c","p","p">>, <<"c","+","+">>,
                 <<"c"," ","p","l","u","s"," ","p","l","u","s">>} :
          Contains(lang, w)
    THEN "c++"
    ELSE IF StartsWith(lang, <<"p","y","t","h","o","n">>) THEN "python"
    ELSE IF StartsWith(lang, <<"j","a","v","a">>) THEN "java"
    ELSE IF lang = <<"c">> \/ Contains(lang, <<"c"," ","l","a","n","g">>) THEN "c"
    ELSE "unsupported"

\* The labels the oracle answers with in this model ("absent": the call
\* raised or the response holds no text).
DetectLabels == { <<"P","y","t","h","o","n","\n">>, <<"R","u","s","t">> }

DetectReplies ==
    {[ok |-> TRUE, text |-> l] : l \in DetectLabels}
        \cup {[ok |-> FALSE, text |-> <<>>]}

\* --------------------------------------------------- _fix_code (189-197)
\* A code text is a sequence of lines, a line a sequence of tokens.  The token
\* "FENCE" stands for the three-backquote code-fence marker.
Fences == {"FENCE", "FENCEpython"}
CodeWithInput == << <<"n", "=", "input(", ")">> >>
CodeNoInput == << <<"print(", "1", ")">> >>

FixTexts ==
    { CodeWithInput, CodeNoInput,
      << <<"FENCEpython">> >> \o CodeWithInput \o << <<"FENCE">> >>,
      << <<"FENCE">>, <<"print(", "1", ")">>, <<"FENCE">> >>,
      << <<"FENCE", "print(", "1", ")", "FENCE">> >> }

FixReplies ==
    {[ok |-> TRUE, text |-> c] : c \in FixTexts}
        \cup {[ok |-> FALSE, text |-> <<>>]}

\* cleaned.startswith(fence)
FenceOpens(c) == c # <<>> /\ c[1] # <<>> /\ c[1][1] \in Fences
\* cleaned.split("\n", 1)[1] raises IndexError on a one-line text
FixRaises(reply) == ~reply.ok \/ (FenceOpens(reply.text) /\ Len(reply.text) = 1)

DropOpenFence(c) == IF FenceOpens(c) THEN Tail(c) ELSE c

\* cleaned.endswith(fence), then cleaned[:-3].strip()
FenceCloses(c) == c # <<>> /\ c[Len(c)] # <<>> /\ c[Len(c)][Len(c[Len(c)])] = "FENCE"

DropCloseFence(c) ==
    IF FenceCloses(c)
    THEN LET last == c[Len(c)]
             kept == SubSeq(last, 1, Len(last) - 1)
         IN  IF kept = <<>> THEN SubSeq(c, 1, Len(c) - 1)
             ELSE SubSeq(c, 1, Len(c) - 1) \o <<kept>>
    ELSE c

FixCode(reply) == DropCloseFence(DropOpenFence(reply.text))

\* ----------------------------------------------- _requires_input (161-163)
InputPatterns == {"input(", "scanf", "cin", "readLine", "Scanner"}

RequiresInput(code) ==
    \E l \in 1..Len(code) : \E t \in 1..Len(code[l]) : code[l][t] \in InputPatterns

\* ------------------------------------------------------------------ state
VARIABLES
    pc,                 \* position in analyze_programming_submission
    programming_model,  \* FALSE: the module-level client is None (line 14)
    question, ocr_code, \* the two arguments
    parts, programs,    \* what the two decomposers returned
    decomposed,         \* how the oracle answered each decomposer (not
                        \* program state)
    mapped_count, total_score, all_justifications,
    i, next_i,          \* the loop variable, and the range iterator behind it
    language, fixed_code, score, test_cases,
    passed_count, k, test_results,   \* locals of the two sandbox passes
    temp_dirs,          \* the scratch directories that exist, oldest first
    result,             \* the returned dict
    pair,               \* history of the pair in progress (not program state)
    pair_log,           \* history of the finished pairs (not program state)
    arg, ret            \* a helper function called on its own: its arguments
                        \* and what it returned

grading == <<pc, programming_model, question, ocr_code, parts, programs, decomposed,
             mapped_count, total_score, all_justifications, i, next_i,
             language, fixed_code, score, test_cases, passed_count, k,
             test_results, temp_dirs, result, pair, pair_log>>

vars == <<grading, arg, ret>>

\* Argument texts: empty, whitespace only, or real text.
Questions == {"", "Q"}
OcrTexts == {"", " ", "code"}
Blank(text) == text \in {"", " "}

\* A JSON value that should be a list of texts.  kind "list": a list of
\* items; "scalar": a truthy value without len() (a number, true); "null":
\* a falsy value (null, 0, "").  An item is a text or not; id names it by
\* its place in the oracle's answer, 0 being the whole input text.
Text(id) == [str |-> TRUE, id |-> id]
NonText(id) == [str |-> FALSE, id |-> id]
List(items) == [kind |-> "list", items |-> items]
Scalar == [kind |-> "scalar", items |-> <<>>]
Null == [kind |-> "null", items |-> <<>>]
Truthy(v) == v.kind = "scalar" \/ (v.kind = "list" /\ v.items # <<>>)
HasLen(v) == v.kind = "list"

PartLists ==
    UNION {{List([x \in 1..len |-> IF f[x] THEN Text(x) ELSE NonText(x)])
              : f \in [1..len -> BOOLEAN]} : len \in 0..MaxParts}

ProgramLists == {List([x \in 1..len |-> Text(x)]) : len \in 0..MaxProgs}

\* A reply to a JSON prompt: the call or the parse raised ("error", which
\* covers a JSON document that is no object, whose .get raises), the object
\* lacks the key ("nokey"), or the key holds val.
SplitReplies(lists) ==
    {[tag |-> "error", val |-> Null], [tag |-> "nokey", val |-> Null]}
        \cup {[tag |-> "value", val |-> v] : v \in lists \cup {Scalar, Null}}

\* One entry of all_justifications: the f-string that wrote it, and the
\* values it interpolates.
Just(prefix, ord, text, passed, total) ==
    [prefix |-> prefix, ord |-> ord, text |-> text, passed |-> passed, total |-> total]

NoResult == [score |-> Zero, items |-> <<>>, marker |-> "", remark |-> ""]

\* What is remembered of the pair in progress: the branch it took (path),
\* the step that raised if one did (cause), the intent check's answer, the
\* oracle and sandbox calls made for it in order, total_score at its start,
\* while the counting pass runs, the places of the test cases whose
\* execution raised, the number of test cases whose output the comparison
\* of lines 278-291 accepted, and the program and the part it is made of.
NoPair == [started |-> FALSE, path |-> "", cause |-> "none", intent |-> "none",
           calls |-> <<>>, before |-> Zero, raisedAt |-> {}, accepted |-> 0,
           program_code |-> Text(0), part_question |-> Text(0)]

NoTests == Null

\* The tag of the reply each decomposer got from the oracle; "none" while
\* it has not asked, or when it returned without asking.
Undecomposed == [parts |-> "none", programs |-> "none"]

\* No helper is being called on its own.
NoArg == <<>>
NoRet == <<>>
Returned(value) == <<value>>

Init ==
    /\ pc = "start"
    /\ programming_model \in BOOLEAN
    /\ question \in Questions
    /\ ocr_code \in OcrTexts
    /\ parts = Null /\ programs = Null /\ decomposed = Undecomposed
    /\ mapped_count = 0 /\ total_score = Zero /\ all_justifications = <<>>
    /\ i = 0 /\ next_i = 0
    /\ language = "" /\ fixed_code = <<>> /\ score = Num(0, 1)
    /\ test_cases = NoTests /\ passed_count = 0 /\ k = 0 /\ test_results = <<>>
    /\ temp_dirs = <<>>
    /\ result = NoResult
    /\ pair = NoPair /\ pair_log = <<>>
    /\ arg = NoArg /\ ret = NoRet

loopLocals == <<language, fixed_code, score, test_cases, passed_count, k, test_results>>
loopState == <<mapped_count, total_score, all_justifications, i, next_i, pair, pair_log>>
inputs == <<programming_model, question, ocr_code>>
helper == <<arg, ret>>

\* ------------------------------------------- lines 26-27: the early return
Start ==
    /\ pc = "start"
    /\ IF ~programming_model \/ ocr_code = ""
       THEN /\ result' = [NoResult EXCEPT !.remark = "Missing model or student code."]
            /\ pc' = "done"
       ELSE /\ pc' = "split_parts"
            /\ UNCHANGED result
    /\ UNCHANGED <<helper, inputs, decomposed, temp_dirs, parts, programs, loopState, loopLocals>>

\* lines 307-308 and 325-326: the oracle is asked only for a text that is
\* not blank
Asked(text, reply) ==
    IF ~programming_model \/ Blank(text) THEN "none" ELSE reply.tag

\* --------------------- lines 30-32 and _split_question_into_parts (323-339)
SplitQuestionIntoParts(reply) ==
    IF ~programming_model \/ Blank(question) THEN List(<<Text(0)>>)
    ELSE IF reply.tag = "value" THEN reply.val
    ELSE List(<<Text(0)>>)

\* line 31-32: if not parts: parts = [question]
PartsOrQuestion(v) == IF Truthy(v) THEN v ELSE List(<<Text(0)>>)

SplitParts ==
    /\ pc = "split_parts"
    /\ \E reply \in SplitReplies(PartLists) :
          /\ parts' = PartsOrQuestion(SplitQuestionIntoParts(reply))
          /\ decomposed' = [decomposed EXCEPT !.parts = Asked(question, reply)]
    /\ pc' = "split_programs"
    /\ UNCHANGED <<helper, inputs, temp_dirs, programs, loopState, loopLocals, result>>

\* -------------------------------- lines 35-41 and _split_programs (306-320)
SplitProgramsOf(reply) ==
    IF ~programming_model \/ Blank(ocr_code) THEN List(<<>>)
    ELSE IF reply.tag = "value" THEN reply.val
    ELSE IF reply.tag = "nokey" THEN List(<<>>)
    ELSE List(<<Text(0)>>)

\* line 41: min(len(programs), len(parts))
MappedCount(progs, prts) == Min(Len(progs.items), Len(prts.items))

SplitPrograms ==
    /\ pc = "split_programs"
    /\ \E reply \in SplitReplies(ProgramLists) :
        LET got == SplitProgramsOf(reply) IN
        /\ programs' = got
        /\ decomposed' = [decomposed EXCEPT !.programs = Asked(ocr_code, reply)]
        /\ IF ~Truthy(got)
           THEN /\ result' = [NoResult EXCEPT
                                !.remark = "No valid programs were found in the submission."]
                /\ pc' = "done"
                /\ UNCHANGED mapped_count
           ELSE IF ~HasLen(got) \/ ~HasLen(parts)
           THEN \* len() of a number: TypeError, outside every try
                /\ pc' = "raised"
                /\ UNCHANGED <<mapped_count, result>>
           ELSE /\ mapped_count' = MappedCount(got, parts)
                /\ pc' = "loop"
                /\ UNCHANGED result
    /\ UNCHANGED <<helper, inputs, temp_dirs, parts, total_score, all_justifications,
                   i, next_i, pair, pair_log, loopLocals>>

\* ------------------------------------------ lines 44-48: the for statement
\* What is known of the pair in progress, or of the pair that just ended.
Current ==
    [ord |-> i + 1, unsupported |-> language = "unsupported", path |-> pair.path,
     cause |-> pair.cause, intent |-> pair.intent, calls |-> pair.calls,
     testgen |-> IF \A x \in 1..Len(pair.calls) : pair.calls[x] # "generate_test_cases"
                 THEN "none"
                 ELSE IF Truthy(test_cases) THEN "cases" ELSE "empty",
     score |-> score, before |-> pair.before, after |-> total_score,
     program_code |-> pair.program_code, part_question |-> pair.part_question]

\* The record kept of a pair that ended.
Logs(rec) ==
    [ord |-> rec.ord, path |-> rec.path, cause |-> rec.cause, score |-> rec.score,
     before |-> rec.before, after |-> rec.after,
     program_code |-> rec.program_code, part_question |-> rec.part_question]

\* line 48: part_question[:50] raises TypeError on a part that is no text
\* (a number, null), before the try of line 50 is entered.
SliceRaises(part) == ~part.str

\* A slip: the programs are taken from the end of the list.
PairAtFromEnd(progs, prts, idx) ==
    [program_code |-> progs.items[Len(progs.items) - idx],
     part_question |-> prts.items[idx + 1]]

\* lines 45-46: programs[i] and parts[i]
PairAt(progs, prts, idx) ==
    [program_code |-> progs.items[idx + 1], part_question |-> prts.items[idx + 1]]

ForEachPair ==
    /\ pc = "loop"
    /\ pair_log' = IF pair.started THEN Append(pair_log, Logs(Current)) ELSE pair_log
    /\ IF next_i < mapped_count
       THEN /\ i' = next_i
            /\ next_i' = next_i + 1
            /\ pair' = [NoPair EXCEPT
                           !.started = TRUE, !.before = total_score,
                           !.program_code = PairAt(programs, parts, next_i).program_code,
                           !.part_question = PairAt(programs, parts, next_i).part_question]
            /\ pc' = IF SliceRaises(PairAt(programs, parts, next_i).part_question)
                      THEN "raised" ELSE "detect"
       ELSE /\ pair' = NoPair
            /\ pc' = "mark_missing"
            /\ UNCHANGED <<i, next_i>>
    \* the locals of the last iteration are dead here: each is assigned
    \* again before it is read
    /\ language' = "" /\ fixed_code' = <<>> /\ score' = Num(0, 1)
    /\ test_cases' = NoTests /\ passed_count' = 0 /\ k' = 0 /\ test_results' = <<>>
    /\ UNCHANGED <<helper, inputs, decomposed, temp_dirs, parts, programs, mapped_count, total_score,
                   all_justifications, result>>

Called(c) == [pair EXCEPT !.calls = Append(@, c)]

\* lines 140-143: the handler at the pair boundary
OuterFail(p, cause) ==
    /\ all_justifications' =
          Append(all_justifications, Just("P", i + 1, "Analysis failed.", 0, 0))
    /\ pair' = [p EXCEPT !.cause = cause]
    /\ pc' = "loop"

\* lines 113-115: the handler of the dynamic path; control then falls to
\* line 138
InnerFail(p, cause) ==
    /\ all_justifications' =
          Append(all_justifications,
                 Just("P", i + 1, "Analysis failed during problem verification.", 0, 0))
    /\ pair' = [p EXCEPT !.cause = cause]
    /\ pc' = "add_score"

\* ------------------------------------------------------------ lines 51-54
\* A slip: the unsupported label is not filtered.
SkipsNoLanguage(lang) == FALSE

SkipsLanguage(lang) == lang = "unsupported"

DetectLanguage ==
    /\ pc = "detect"
    /\ \E reply \in DetectReplies :
        IF ~reply.ok
        THEN /\ OuterFail(Called("detect_language"), "language_detection")
             /\ UNCHANGED language
        ELSE LET lang == NormalizeLanguage(Lower(Strip(reply.text))) IN
             /\ language' = lang
             /\ IF SkipsLanguage(lang)
                THEN /\ all_justifications' =
                            Append(all_justifications,
                                   Just("P", i + 1,
                                        "Could not detect a supported language, skipped.", 0, 0))
                     /\ pair' = [Called("detect_language") EXCEPT !.path = "skipped"]
                     /\ pc' = "loop"
                ELSE /\ pair' = Called("detect_language")
                     /\ pc' = "fix"
                     /\ UNCHANGED all_justifications
    /\ UNCHANGED <<helper, inputs, decomposed, temp_dirs, parts, programs, mapped_count, total_score, i, next_i,
                   fixed_code, score, test_cases, passed_count, k, test_results,
                   result, pair_log>>

\* ------------------------------------------------------------ lines 56-59
\* The text of a submitted program: the model gives the programs at odd
\* places an input statement and the others none.
ProgramText(item) == IF item.id % 2 = 1 THEN CodeWithInput ELSE CodeNoInput

\* A slip: the check reads the text as submitted.
PolicyInputRaw(raw, fixed) == raw

\* line 59 reads the repaired text
PolicyInput(raw, fixed) == fixed

RepairAndSelect ==
    /\ pc = "fix"
    /\ \E reply \in FixReplies :
        IF FixRaises(reply)
        THEN /\ OuterFail(Called("fix_code"), "repair")
             /\ UNCHANGED <<fixed_code, score>>
        ELSE /\ fixed_code' = FixCode(reply)
             /\ score' = Num(0, 1)
             /\ pair' = [pair EXCEPT !.calls = @ \o <<"fix_code", "requires_input">>]
             /\ pc' = IF RequiresInput(PolicyInput(ProgramText(pair.program_code),
                                                     FixCode(reply)))
                      THEN "testgen" ELSE "static"
             /\ UNCHANGED all_justifications
    /\ UNCHANGED <<helper, inputs, decomposed, temp_dirs, parts, programs, mapped_count, total_score, i, next_i,
                   language, test_cases, passed_count, k, test_results, result, pair_log>>

\* ------------------------- lines 61-64 and _generate_test_cases (200-214)
\* A test case is a JSON object ("dict") or anything else ("other"), whose
\* .get raises.
TestLists(maxLen) ==
    UNION {{List(l) : l \in [1..len -> {"dict", "other"}]} : len \in 0..maxLen}

TestReplies(maxLen) ==
    {[tag |-> "error", val |-> Null]}
        \cup {[tag |-> "value", val |-> v] : v \in TestLists(maxLen) \cup {Scalar, Null}}

\* The longest list of test cases examined: MaxTests for a submission of
\* one pair, one less for each pair of a submission of several.
TestsAllowed(count) == IF count = 1 THEN MaxTests ELSE MaxTests - 1

GenerateTestCasesOf(reply) == IF reply.tag = "value" THEN reply.val ELSE List(<<>>)

\* A slip: testing for None instead of emptiness.
NoTestCasesOnlyNull(cases) == cases.kind = "null"

\* line 62: if not test_cases
NoTestCases(cases) == ~Truthy(cases)

GenerateTestCases ==
    /\ pc = "testgen"
    /\ \E reply \in TestReplies(TestsAllowed(mapped_count)) :
        LET cases == GenerateTestCasesOf(reply) IN
        /\ test_cases' = cases
        /\ IF NoTestCases(cases)
           THEN /\ all_justifications' =
                      Append(all_justifications,
                             Just("P", i + 1, "Could not generate test cases.", 0, 0))
                /\ pair' = [Called("generate_test_cases") EXCEPT !.path = "no_tests"]
                /\ pc' = "loop"
           ELSE /\ pair' = Called("generate_test_cases")
                /\ pc' = "intent"
                /\ UNCHANGED all_justifications
    /\ UNCHANGED <<helper, inputs, decomposed, temp_dirs, parts, programs, mapped_count, total_score, i, next_i,
                   language, fixed_code, score, passed_count, k, test_results,
                   result, pair_log>>

\* ------------------------------------------------------------ lines 80-93
\* "error": generate_content, .text or json.loads raised, or the document
\* is no object; otherwise what the object holds under
\* solves_intended_problem: true, false, or nothing ("missing").
IntentReplies == {"error", "match", "mismatch", "missing"}

\* A slip: rejecting only on an explicit false.
IntentRejectsOnlyFalse(reply) == reply = "mismatch"

\* line 84: if not problem_analysis.get("solves_intended_problem")
IntentRejects(reply) == reply # "match"

IntentCheck ==
    /\ pc = "intent"
    /\ \E reply \in IntentReplies :
        LET p == [Called("intent_check") EXCEPT !.intent = reply] IN
        IF reply = "error"
        THEN /\ InnerFail(p, "intent_check")
             /\ UNCHANGED total_score
        ELSE IF IntentRejects(reply)
        THEN /\ all_justifications' =
                   Append(all_justifications,
                          Just("P", i + 1, "This code does not solve the assigned problem.", 0, 0))
             /\ total_score' = RatAdd(total_score, Zero)
             /\ pair' = [p EXCEPT !.path = "intent_rejected"]
             /\ pc' = "loop"
        ELSE /\ pair' = [p EXCEPT !.path = "dynamic"]
             /\ pc' = "run_start"
             /\ UNCHANGED <<total_score, all_justifications>>
    /\ UNCHANGED <<helper, inputs, decomposed, temp_dirs, parts, programs, mapped_count, i, next_i, language,
                   fixed_code, score, test_cases, passed_count, k, test_results,
                   result, pair_log>>

\* ------------------------------ line 95 and _run_code_in_docker (217-301)
\* lines 222-230: docker.from_env() raises when the engine is unreachable
RunStart ==
    /\ pc = "run_start"
    /\ \E up \in BOOLEAN :
        IF up
        THEN /\ pair' = Called("docker_from_env")
             /\ passed_count' = 0
             /\ k' = 1
             /\ pc' = "run"
             /\ UNCHANGED all_justifications
        ELSE /\ InnerFail(Called("docker_from_env"), "engine_unreachable")
             /\ UNCHANGED <<passed_count, k>>
    /\ UNCHANGED <<helper, inputs, decomposed, temp_dirs, parts, programs, mapped_count, total_score, i, next_i,
                   language, fixed_code, score, test_cases, test_results,
                   result, pair_log>>

\* lines 237-260: the recipe of a language; "None" for any other
FileName(lang) ==
    CASE lang = "python" -> "student_code.py"
      [] lang = "c++" -> "student_code.cpp"
      [] lang = "c" -> "student_code.c"
      [] lang = "java" -> "Main.java"
      [] OTHER -> "None"

\* What one containers.run call and the comparison after it come to: the
\* output matched the expected value, it did not, or the call raised
\* docker.errors.ContainerError or another exception.
\* What one containers.run call and the code after it come to.  A
\* ContainerError carries the bytes the program wrote to stderr; in
\* "ContainerErrorUndecodable" those bytes are no UTF-8, and the decode
\* inside the handler (line 295, line 423) raises out of the handler.
RunOutcomes == {"match", "differs", "ContainerError", "Exception",
                "ContainerErrorUndecodable"}

RunErrors == {"ContainerError", "Exception", "ContainerErrorUndecodable"}

HandlerRaises(outcome) == outcome = "ContainerErrorUndecodable"

\* lines 283-291
PassedAfter(count, outcome) == IF outcome = "match" THEN count + 1 ELSE count

\* lines 288, 294-299: every branch continues with the next case; last is
\* the number of cases
CaseAfter(case, outcome, last) == case + 1

\* lines 262-265 and 380-383: a fresh directory holding the one file written
\* into it
MkTemp(dirs, lang) == Append(dirs, {FileName(lang)})

\* A slip: the directory is removed only when the block ends normally.
CleanupUnlessRaised(dirs, outcome) ==
    IF outcome \in RunErrors THEN dirs ELSE SubSeq(dirs, 1, Len(dirs) - 1)

\* lines 262 and 380: leaving the with block removes the directory it made,
\* however the block is left
Cleanup(dirs, outcome) == SubSeq(dirs, 1, Len(dirs) - 1)

\* lines 232-265: one turn of the for statement up to the open with block
RunCase ==
    /\ pc = "run"
    /\ \/ /\ ~HasLen(test_cases) \/ (k <= Len(test_cases.items) /\ test_cases.items[k] # "dict")
          \* iterating a number, or case.get on what is no object: raised at
          \* line 232 or 233, outside the try of line 267
          /\ InnerFail(pair, "test_case_shape")
          /\ UNCHANGED <<k, temp_dirs>>
       \/ /\ HasLen(test_cases) /\ k <= Len(test_cases.items) /\ test_cases.items[k] = "dict"
          /\ IF FileName(language) = "None"
             THEN /\ k' = k + 1
                  /\ UNCHANGED <<pc, temp_dirs>>
             ELSE /\ temp_dirs' = MkTemp(temp_dirs, language)
                  /\ pc' = "run_exec"
                  /\ UNCHANGED k
          /\ UNCHANGED <<pair, all_justifications>>
    /\ UNCHANGED <<helper, inputs, decomposed, parts, programs, mapped_count, total_score, i, next_i,
                   language, fixed_code, score, test_cases, passed_count,
                   test_results, result, pair_log>>

\* lines 267-299: the container run, the comparison or the handler, and the
\* end of the with block
RunExec ==
    /\ pc = "run_exec"
    /\ \E outcome \in RunOutcomes :
        LET p == [Called("sandbox_run") EXCEPT
                     !.raisedAt = IF outcome \in RunErrors THEN @ \cup {k} ELSE @,
                     !.accepted = IF outcome = "match" THEN @ + 1 ELSE @] IN
        /\ temp_dirs' = Cleanup(temp_dirs, outcome)
        /\ IF HandlerRaises(outcome)
           THEN /\ InnerFail(p, "counting_pass")
                /\ UNCHANGED <<passed_count, k>>
           ELSE /\ passed_count' = PassedAfter(passed_count, outcome)
                /\ k' = CaseAfter(k, outcome, Len(test_cases.items))
                /\ pair' = p
                /\ pc' = "run"
                /\ UNCHANGED all_justifications
    /\ UNCHANGED <<helper, inputs, decomposed, parts, programs, mapped_count, total_score, i, next_i,
                   language, fixed_code, score, test_cases, test_results,
                   result, pair_log>>

\* A slip: one more than the number of cases in the denominator.
DynamicScoreOffByOne(passed, cases) ==
    IF Truthy(cases) THEN Num(passed, Len(cases.items) + 1) ELSE Num(0, 1)

\* line 301 and lines 95-96
DynamicScore(passed, cases) ==
    IF Truthy(cases) THEN Num(passed, Len(cases.items)) ELSE Num(0, 1)

RunReturn ==
    /\ pc = "run"
    /\ HasLen(test_cases) /\ k > Len(test_cases.items)
    /\ score' = DynamicScore(passed_count, test_cases)
    /\ pair' = [pair EXCEPT !.raisedAt = {}]
    /\ pc' = "eval_start"
    /\ UNCHANGED <<helper, inputs, decomposed, temp_dirs, parts, programs, mapped_count, total_score,
                   all_justifications, i, next_i, pair_log, language, fixed_code,
                   test_cases, passed_count, k, test_results, result>>

\* --------------------------- line 99 and _evaluate_test_cases (342-429)
\* line 347: docker.from_env() stands outside every try of the function
EvalStart ==
    /\ pc = "eval_start"
    /\ \E up \in BOOLEAN :
        IF up
        THEN /\ pair' = Called("docker_from_env")
             /\ test_results' = <<>>
             /\ k' = 1
             /\ pc' = "eval"
             /\ UNCHANGED all_justifications
        ELSE /\ InnerFail(Called("docker_from_env"), "diagnostic_pass")
             /\ UNCHANGED <<test_results, k>>
    /\ UNCHANGED <<helper, inputs, decomposed, temp_dirs, parts, programs, mapped_count, total_score, i, next_i,
                   language, fixed_code, score, test_cases, passed_count,
                   result, pair_log>>

\* What one containers.run call and the indicator test after it come to.
EvalOutcomes == {"passed", "wrong", "ContainerError", "Exception",
                 "ContainerErrorUndecodable"}

\* lines 350-356 and 396-425: the result dict of one case
EvalResult(outcome) ==
    [passed |-> outcome = "passed",
     error_message |->
        CASE outcome = "passed" -> ""
          [] outcome = "wrong" -> "Output indicates wrong primality"
          [] outcome = "ContainerError" -> "Runtime Error"
          [] OTHER -> "Execution Error"]

\* lines 349-383: one turn of the for statement up to the open with block
EvalCase ==
    /\ pc = "eval"
    /\ k <= Len(test_cases.items)
    /\ IF FileName(language) = "None"
       THEN \* os.path.join(temp_dir, None): TypeError inside the with block,
            \* which removes its directory, and outside the try
            /\ InnerFail(pair, "diagnostic_pass")
            /\ UNCHANGED temp_dirs
       ELSE /\ temp_dirs' = MkTemp(temp_dirs, language)
            /\ pc' = "eval_exec"
            /\ UNCHANGED <<pair, all_justifications>>
    /\ UNCHANGED <<helper, inputs, decomposed, parts, programs, mapped_count, total_score, i, next_i,
                   language, fixed_code, score, test_cases, passed_count, k,
                   test_results, result, pair_log>>

\* lines 385-427: the container run, the indicator test or the handler,
\* the end of the with block, and the append
EvalExec ==
    /\ pc = "eval_exec"
    /\ \E outcome \in EvalOutcomes :
        /\ temp_dirs' = Cleanup(temp_dirs, outcome)
        /\ IF HandlerRaises(outcome)
           THEN /\ InnerFail(Called("sandbox_eval"), "diagnostic_handler")
                /\ UNCHANGED <<test_results, k>>
           ELSE /\ test_results' = Append(test_results, EvalResult(outcome))
                /\ k' = k + 1
                /\ pair' = Called("sandbox_eval")
                /\ pc' = "eval"
                /\ UNCHANGED all_justifications
    /\ UNCHANGED <<helper, inputs, decomposed, parts, programs, mapped_count, total_score, i, next_i,
                   language, fixed_code, score, test_cases, passed_count,
                   result, pair_log>>

\* line 429 and lines 100-112
EvalReturn ==
    /\ pc = "eval"
    /\ k > Len(test_cases.items)
    /\ all_justifications' =
          Append(all_justifications,
                 Just("P", i + 1, "Passed tests", passed_count, Len(test_cases.items)))
    /\ pc' = "add_score"
    /\ UNCHANGED <<helper, inputs, decomposed, temp_dirs, parts, programs, mapped_count, total_score, i, next_i,
                   pair, pair_log, loopLocals, result>>

\* --------------------------------------------------------- lines 116-136
\* The judgment: "error" as above; otherwise an object whose score is
\* missing or is one of ScoreValues.
ScoreValues == {Num(0, 1), Num(1, 2), Num(1, 1), Num(2, 1), NonNum}

StaticReplies ==
    {[tag |-> "error", val |-> Num(0, 1)], [tag |-> "nokey", val |-> Num(0, 1)]}
        \cup {[tag |-> "value", val |-> v] : v \in ScoreValues}

\* line 131: result.get("score", 0.0)
StaticScore(reply) == IF reply.tag = "value" THEN reply.val ELSE Num(0, 1)

\* A slip: the handler records nothing.
WithoutStaticFailure(justs, ord) == justs

\* lines 134-136: the handler of the static path
WithStaticFailure(justs, ord) ==
    Append(justs, Just("P", ord, "Gemini-only analysis failed.", 0, 0))

StaticJudge ==
    /\ pc = "static"
    /\ \E reply \in StaticReplies :
        IF reply.tag = "error"
        THEN /\ all_justifications' = WithStaticFailure(all_justifications, i + 1)
             /\ pair' = [Called("static_judgment") EXCEPT
                            !.path = "static", !.cause = "static_judgment"]
             /\ UNCHANGED score
        ELSE /\ score' = StaticScore(reply)
             /\ all_justifications' =
                   Append(all_justifications, Just("P", i + 1, "Static judgment", 0, 0))
             /\ pair' = [Called("static_judgment") EXCEPT !.path = "static"]
    /\ pc' = "add_score"
    /\ UNCHANGED <<helper, inputs, decomposed, temp_dirs, parts, programs, mapped_count, total_score, i, next_i,
                   language, fixed_code, test_cases, passed_count, k, test_results,
                   result, pair_log>>

\* --------------------------------------------------------- lines 138-143
\* total_score += score raises TypeError when score is no number
AddRaises(v) == v.t # "num"

AddScore ==
    /\ pc = "add_score"
    /\ IF AddRaises(score)
       THEN /\ OuterFail(pair, "score_addition")
            /\ UNCHANGED total_score
       ELSE /\ total_score' = RatAdd(total_score, AsRat(score))
            /\ pc' = "loop"
            /\ UNCHANGED <<all_justifications, pair>>
    /\ UNCHANGED <<helper, inputs, decomposed, temp_dirs, parts, programs, mapped_count, i, next_i, loopLocals,
                   result, pair_log>>

\* --------------------------------------------------------- lines 146-148
\* A slip: range(mapped_count + 1, len(parts)).
UnmatchedOffByOne(count, prts) == (count + 2)..Len(prts.items)

\* The 1-based places of the parts without a program.
Unmatched(count, prts) == (count + 1)..Len(prts.items)

RECURSIVE Ascending(_)
Ascending(S) ==
    IF S = {} THEN <<>>
    ELSE LET least == CHOOSE j \in S : \A other \in S : j <= other
         IN  <<least>> \o Ascending(S \ {least})

MarkMissing ==
    /\ pc = "mark_missing"
    /\ LET places == Unmatched(mapped_count, parts)
           bad == {j \in places : SliceRaises(parts.items[j])}
           \* parts[j][:50] raises at the first part that is no text
           reported == Ascending({j \in places : \A b \in bad : j < b})
       IN  /\ all_justifications' =
                all_justifications \o
                [x \in 1..Len(reported) |->
                    Just("Part", reported[x], "No program submitted.", 0, 0)]
           /\ pc' = IF bad = {} THEN "summary" ELSE "raised"
    /\ UNCHANGED <<helper, inputs, decomposed, temp_dirs, parts, programs, mapped_count, total_score, i, next_i,
                   pair, pair_log, loopLocals, result>>

\* ------------------- lines 151-156 and _generate_final_summary (431-461)
\* What the oracle answers the summary prompt with: nothing usable
\* ("error"), or a text, which is free to hold the words of the marker.
SummaryReplies == {"error", "Oracle remark", "Oracle remark holding the marker"}

FinalSummary(reply) ==
    IF ~programming_model \/ all_justifications = <<>> THEN "Overall evaluation complete."
    ELSE IF reply # "error" THEN reply
    ELSE "Could not generate a final summary."

\* A remark as the pieces of text it is made of.
RemarkText(remark) ==
    IF remark = "Oracle remark holding the marker"
    THEN <<"words", "Final Remark:", "words">>
    ELSE <<remark>>

\* lines 153-154: the entries joined, the marker, the remark
FinalJustification(res) ==
    [x \in 1..Len(res.items) |-> "entry"] \o <<res.marker>> \o RemarkText(res.remark)

\* src/app.py line 255: the text after the last occurrence of the marker,
\* or the whole text when the marker does not occur
ExtractRemark(text) ==
    LET at == {x \in 1..Len(text) : text[x] = "Final Remark:"} IN
    IF at = {} THEN text
    ELSE LET last == CHOOSE x \in at : \A y \in at : y <= x
         IN  SubSeq(text, last + 1, Len(text))

\* line 152
FinalScore(total, count) == IF count # 0 THEN RatDivInt(total, count) ELSE Zero

Summarize ==
    /\ pc = "summary"
    /\ \E reply \in SummaryReplies :
          result' = [score |-> FinalScore(total_score, mapped_count),
                     items |-> all_justifications,
                     marker |-> "Final Remark:",
                     remark |-> FinalSummary(reply)]
    /\ pc' = "done"
    /\ UNCHANGED <<helper, inputs, decomposed, temp_dirs, parts, programs, loopState, loopLocals>>

Next ==
    \/ Start \/ SplitParts \/ SplitPrograms \/ ForEachPair
    \/ DetectLanguage \/ RepairAndSelect \/ GenerateTestCases \/ IntentCheck
    \/ RunStart \/ RunCase \/ RunExec \/ RunReturn
    \/ EvalStart \/ EvalCase \/ EvalExec \/ EvalReturn
    \/ StaticJudge \/ AddScore \/ MarkMissing \/ Summarize

Spec == Init /\ [][Next]_vars

\* ------------------------------------------ helpers called on their own
\* No grading call is under way.
Idle ==
    /\ pc = "idle"
    /\ programming_model = TRUE /\ question = "" /\ ocr_code = ""
    /\ parts = Null /\ programs = Null /\ decomposed = Undecomposed
    /\ mapped_count = 0 /\ total_score = Zero /\ all_justifications = <<>>
    /\ i = 0 /\ next_i = 0
    /\ language = "" /\ fixed_code = <<>> /\ score = Num(0, 1)
    /\ test_cases = NoTests /\ passed_count = 0 /\ k = 0 /\ test_results = <<>>
    /\ temp_dirs = <<>>
    /\ result = NoResult
    /\ pair = NoPair /\ pair_log = <<>>

\* every text of at most maxLen characters of the alphabet
Texts(alphabet, maxLen) == UNION {[1..n -> alphabet] : n \in 0..maxLen}

\* Captured outputs and expected outputs: digits, a letter in both cases,
\* and white space.
VerifyAlphabet == {"0", "1", "A", "a", " "}

VerifyInit ==
    /\ Idle
    /\ arg \in [output : Texts(VerifyAlphabet, MaxOutputLen),
                expected_output : Texts(VerifyAlphabet, MaxExpectedLen)]
    /\ ret = NoRet

\* lines 278-291 applied to one captured output and one expected output
VerifyCall ==
    /\ pc = "idle" /\ ret = NoRet
    /\ ret' = Returned(Verify(arg.output, arg.expected_output))
    /\ UNCHANGED <<grading, arg>>

SpecVerify == VerifyInit /\ [][VerifyCall]_vars

\* Labels the oracle may answer the detection prompt with: names of
\* languages, and every short text over a few characters.
NamedLabels ==
    { <<"P", "y", "t", "h", "o", "n", "\n">>,
      <<"p", "y", "t", "h", "o", "n">>,
      <<"J", "a", "v", "a">>,
      <<"J", "a", "v", "a", "S", "c", "r", "i", "p", "t">>,
      <<"C">>,
      <<"C", "+", "+">>,
      <<"c", "p", "p">>,
      <<"c", " ", "p", "l", "u", "s", " ", "p", "l", "u", "s">>,
      <<"C", "#">>,
      <<"R", "u", "b", "y">>,
      <<" ", "c", " ">> }

SampleLabels == NamedLabels \cup Texts({"c", "+", "#", " "}, MaxLabelLen)

DetectInit ==
    /\ Idle
    /\ arg \in [label : SampleLabels]
    /\ ret = NoRet

\* lines 174-186 applied to one label
DetectCall ==
    /\ pc = "idle" /\ ret = NoRet
    /\ ret' = Returned(NormalizeLanguage(Lower(Strip(arg.label))))
    /\ UNCHANGED <<grading, arg>>

SpecDetect == DetectInit /\ [][DetectCall]_vars

\* Captured outputs of a primality program, and expected values that
\* are booleans.
OutputWords == {"17", "is", "not", "a", "prime", "Prime", "number", "composite",
                "true", "false"}

ExpectedBooleans ==
    { <<"t", "r", "u", "e">>, <<"T", "r", "u", "e">>, <<" ", "1">>,
      <<"f", "a", "l", "s", "e">>, <<"0">> }

DiagnoseInit ==
    /\ Idle
    /\ arg \in [output : Texts(OutputWords, MaxWords), expected : ExpectedBooleans]
    /\ ret = NoRet

\* lines 396-416 applied to one captured output and one expected value
DiagnoseCall ==
    /\ pc = "idle" /\ ret = NoRet
    /\ ret' = Returned(MarkedPassed(arg.output, arg.expected))
    /\ UNCHANGED <<grading, arg>>

SpecDiagnose == DiagnoseInit /\ [][DiagnoseCall]_vars

\* ================================================================ claims
\* Shorthands used by the claims below.
Graded == pc = "done" /\ result.marker = "Final Remark:"
NumPrograms == Len(programs.items)
NumParts == Len(parts.items)
Logged == {pair_log[x] : x \in 1..Len(pair_log)}
\* the pair in progress, or the pair that just ended (until the for
\* statement takes the next one)
Live == IF pair.started THEN {Current} ELSE {}
\* the entries written for the pair of ordinal ord, in order
EntriesOf(ord) == SelectSeq(all_justifications, LAMBDA e : e.prefix = "P" /\ e.ord = ord)
TextsOf(ord) == [x \in 1..Len(EntriesOf(ord)) |->
                    [text |-> EntriesOf(ord)[x].text, passed |-> EntriesOf(ord)[x].passed,
                     total |-> EntriesOf(ord)[x].total]]
MissingEntries == SelectSeq(all_justifications, LAMBDA e : e.text = "No program submitted.")
SandboxCalls == {"docker_from_env", "sandbox_run", "sandbox_eval"}
Made(rec, labels) == \E x \in 1..Len(rec.calls) : rec.calls[x] \in labels
Count(calls, label) == Cardinality({x \in 1..Len(calls) : calls[x] = label})
FailureTexts == {"Analysis failed.", "Analysis failed during problem verification.",
                 "Gemini-only analysis failed."}
SaysFailed(ord) == \E x \in 1..Len(EntriesOf(ord)) : EntriesOf(ord)[x].text \in FailureTexts

\* C1: analyze_programming_submission never lets an exception escape: it
\* always ends by returning an outcome, whatever the oracle answers.
C1_NoExceptionEscapes == pc # "raised"

\* The score of a pair as the specification defines it: the judged or
\* tested score, and 0.0 for a pair that was skipped or that failed.
PairScore(rec) ==
    IF rec.cause = "none" /\ rec.path \in {"static", "dynamic"} THEN AsRat(rec.score) ELSE Zero

\* C2: the returned score is the sum of the pair scores over the number of
\* mapped pairs min(|programs|, |parts|), a skipped or failed pair counting
\* as 0.0 in the numerator.
C2_ScoreIsMeanOfPairScores ==
    Graded =>
        result.score =
            RatDivInt(SeqSum([x \in 1..Len(pair_log) |-> PairScore(pair_log[x])]),
                      Min(NumPrograms, NumParts))

\* C3: with N >= 1 programs and M >= 1 parts, exactly min(N, M) pairs go
\* through the grading loop, and exactly the max(0, M - N) parts of index
\* >= min(N, M) are reported with a "No program submitted" entry.
C3_PairAndMissingCounts ==
    /\ Len(pair_log) <= Min(NumPrograms, NumParts)
    /\ (pc = "summary" \/ Graded) =>
          /\ NumPrograms >= 1 /\ NumParts >= 1
          /\ Len(pair_log) = Min(NumPrograms, NumParts)
          /\ \A x \in 1..Len(pair_log) : pair_log[x].ord = x
          /\ Len(MissingEntries) = Max(0, NumParts - NumPrograms)
          /\ \A x \in 1..Len(MissingEntries) :
                MissingEntries[x].ord = Min(NumPrograms, NumParts) + x

C3_Witness ==
    Graded /\ NumPrograms >= 2 /\ NumParts > NumPrograms /\ Len(MissingEntries) >= 1

\* C4: a pair whose intent check reports a mismatch adds exactly 0.0 to the
\* total, is justified by the mismatch entry, and has no sandbox call; the
\* sandbox is called only for a pair whose intent check reported a match.
C4_IntentMismatchOverrides ==
    \A rec \in Live :
        /\ rec.intent = "mismatch" =>
              /\ rec.after = rec.before
              /\ rec.path = "intent_rejected"
              /\ TextsOf(rec.ord) =
                    <<[text |-> "This code does not solve the assigned problem.",
                       passed |-> 0, total |-> 0]>>
              /\ ~Made(rec, SandboxCalls)
        /\ Made(rec, SandboxCalls) => rec.intent = "match"

C4_Witness ==
    /\ pc = "loop"
    /\ \E rec \in Live : rec.intent = "mismatch"
    /\ \E done \in Logged : done.path = "dynamic" /\ done.after # done.before

\* C5: a pair one of whose steps failed adds exactly 0.0 to the total and
\* has a failure entry; a pair with a failure entry never adds a non-zero
\* score.
C5_FailedPairAddsNothing ==
    \A rec \in Logged :
        /\ rec.cause # "none" => (rec.after = rec.before /\ SaysFailed(rec.ord))
        /\ SaysFailed(rec.ord) => rec.after = rec.before

\* C6: every returned score lies in [0, 1].
C6_ScoreInUnitInterval ==
    pc = "done" => (RatLeq(Zero, result.score) /\ RatLeq(result.score, One))

\* C7: a pair whose language is detected as unsupported is skipped with no
\* call but the detection, has the skip entry and adds 0 to the total; the
\* pairs after it are still graded.
C7_UnsupportedIsSkipped ==
    /\ \A rec \in Live :
          rec.unsupported =>
              /\ rec.calls = <<"detect_language">>
              /\ rec.path = "skipped"
              /\ rec.after = rec.before
              /\ TextsOf(rec.ord) =
                    <<[text |-> "Could not detect a supported language, skipped.",
                       passed |-> 0, total |-> 0]>>
    /\ (Graded /\ \E rec \in Logged : rec.path = "skipped") =>
          {rec.ord : rec \in Logged} = 1..Min(NumPrograms, NumParts)

C7_Witness ==
    Graded /\ \E a, b \in Logged :
        a.path = "skipped" /\ b.ord > a.ord /\ b.path \in {"static", "dynamic"} /\ b.after # b.before

\* C8: a pair whose test-case generation failed or gave no test case adds
\* 0.0 to the total, has the explanatory entry, sees no intent check and no
\* sandbox call and raises nothing; the pairs after it are still graded.
C8_NoTestCasesScoresZero ==
    /\ \A rec \in Live :
          rec.testgen = "empty" =>
              /\ rec.after = rec.before
              /\ rec.cause = "none"
              /\ rec.path = "no_tests"
              /\ ~Made(rec, SandboxCalls \cup {"intent_check"})
              /\ TextsOf(rec.ord) =
                    <<[text |-> "Could not generate test cases.", passed |-> 0, total |-> 0]>>
    /\ (Graded /\ \E rec \in Logged : rec.path = "no_tests") =>
          {rec.ord : rec \in Logged} = 1..Min(NumPrograms, NumParts)

C8_Witness ==
    Graded /\ \E a, b \in Logged :
        a.path = "no_tests" /\ b.ord > a.ord /\ b.path \in {"static", "dynamic"}

\* C9: in the counting pass every test case before the current one was
\* launched, whether or not its execution raised, and a case whose
\* execution raised is never counted as passed; a pair one of whose test
\* cases raised has, once the counting pass is left, had every one of its
\* test cases launched (unless a test case was no JSON object).
C9_ErrorsDoNotAbortCases ==
    /\ pc \in {"run", "run_exec"} /\ HasLen(test_cases) =>
          /\ Count(pair.calls, "sandbox_run") = k - 1
          /\ pair.raisedAt \subseteq 1..(k - 1)
          /\ passed_count <= (k - 1) - Cardinality(pair.raisedAt)
    /\ pc = "eval_start" => Count(pair.calls, "sandbox_run") = Len(test_cases.items)
    /\ pair.raisedAt # {} /\ pc \notin {"run", "run_exec"} /\ pair.cause # "test_case_shape" =>
          Count(pair.calls, "sandbox_run") = Len(test_cases.items)

\* C10: a pair stopped by an unreachable engine runs no test case, adds
\* nothing to the total, and what is recorded for it differs from what is recorded for a pair whose tests
\* ran and failed and for a pair stopped by an ordinary oracle failure.
C10_EngineFailureIsDistinct ==
    /\ \A rec \in Live :
          rec.cause = "engine_unreachable" => ~Made(rec, {"sandbox_run", "sandbox_eval"})
    /\ \A a \in Logged :
          a.cause = "engine_unreachable" =>
              /\ a.after = a.before
              /\ \A x \in 1..Len(TextsOf(a.ord)) : TextsOf(a.ord)[x].text # "Passed tests"
              /\ \A b \in Logged :
                    b.cause = "intent_check" =>
                        <<TextsOf(a.ord), a.after = a.before>> # <<TextsOf(b.ord), b.after = b.before>>

\* C11: a scratch directory exists only between its creation and the end
\* of the test-case run it was made for, whichever way that run ends: at
\* most one exists at any time, it holds exactly one file, and none
\* exists outside the two execution steps, the returned outcome included.
C11_ScratchIsTornDown ==
    /\ Len(temp_dirs) <= 1
    /\ \A x \in 1..Len(temp_dirs) : Cardinality(temp_dirs[x]) = 1
    /\ pc \notin {"run_exec", "eval_exec"} => temp_dirs = <<>>
    /\ pc \in {"run_exec", "eval_exec"} => Len(temp_dirs) = 1

\* the second test case's directory exists alone after the first test
\* case's execution raised
C11_Witness ==
    pc = "run_exec" /\ k = 2 /\ 1 \in pair.raisedAt /\ Len(temp_dirs) = 1

\* What the counting-mode comparison is given, after trimming and
\* lowercasing.
Normalized(text) == Lower(Strip(text))
DigitValue(c) == CHOOSE n \in 0..9 : <<"0", "1", "2", "3", "4", "5", "6", "7", "8", "9">>[n + 1] = c

RECURSIVE NumberOf(_)
NumberOf(digits) ==
    IF digits = <<>> THEN 0
    ELSE 10 * NumberOf(SubSeq(digits, 1, Len(digits) - 1)) + DigitValue(digits[Len(digits)])

\* C12: with a purely numeric expected value the case passes exactly when
\* the first run of digits in the output is the same number as the
\* expected value; otherwise it passes exactly when the normalized strings
\* are equal.
C12_NumericOrExact ==
    ret # NoRet =>
        LET out == Normalized(arg.output)
            exp == Normalized(arg.expected_output)
        IN ret[1] = IF IsDigit(exp)
                    THEN /\ FirstDigits(out) # <<>>
                         /\ NumberOf(FirstDigits(out)) = NumberOf(exp)
                    ELSE out = exp

\* C13: a case whose output equals its expected output after trimming
\* and lowercasing is counted as passed.
C13_VerifyReflexive ==
    ret # NoRet /\ Normalized(arg.output) = Normalized(arg.expected_output) => ret[1]

\* a text starting with a digit, equal to the expected text only after
\* lowercasing
C13_Witness ==
    /\ ret = Returned(TRUE)
    /\ arg.output = <<"1", "A">> /\ arg.expected_output = <<"1", "a">>

\* C14: a decomposer whose oracle call failed, or whose oracle answered
\* with an object lacking the expected key, returns the whole input as a
\* single unit, and the call does not end with "No valid programs".
C14_DecomposerFallsBack ==
    /\ decomposed.parts \in {"error", "nokey"} => parts = List(<<Text(0)>>)
    /\ decomposed.programs \in {"error", "nokey"} =>
          /\ programs = List(<<Text(0)>>)
          /\ result.remark # "No valid programs were found in the submission."

\* C15: in a returned outcome the entries of the pairs come first, in the
\* order of the pairs, then the entries of the unmatched parts in
\* increasing order, then the marker and the remark; and taking the text
\* after the last marker of the justification gives back the remark.
C15_RemarkIsExtracted ==
    Graded =>
        /\ \A x, y \in 1..Len(result.items) :
              x < y =>
                  /\ result.items[x].prefix = "Part" => result.items[y].prefix = "Part"
                  /\ result.items[x].prefix = result.items[y].prefix =>
                        IF result.items[x].prefix = "Part"
                        THEN result.items[x].ord < result.items[y].ord
                        ELSE result.items[x].ord <= result.items[y].ord
        /\ ExtractRemark(FinalJustification(result)) = RemarkText(result.remark)

\* C16: a pair on the static path whose judgment could not be obtained or
\* parsed adds exactly 0.0 to the total and has exactly one entry, the
\* generic failure entry of that path; the pairs after it are still
\* graded.
C16_StaticParseFailure ==
    /\ \A rec \in Logged :
          rec.cause = "static_judgment" =>
              /\ rec.path = "static"
              /\ rec.after = rec.before
              /\ TextsOf(rec.ord) =
                    <<[text |-> "Gemini-only analysis failed.", passed |-> 0, total |-> 0]>>
    /\ (Graded /\ \E rec \in Logged : rec.cause = "static_judgment") =>
          {rec.ord : rec \in Logged} = 1..Min(NumPrograms, NumParts)

C16_Witness ==
    Graded /\ \E a, b \in Logged :
        /\ a.cause = "static_judgment" /\ b.ord > a.ord
        /\ b.path = "dynamic" /\ b.after # b.before

\* C17: the pair of ordinal n is made of the n-th program and the n-th
\* part of the oracle's lists; no pair, and no entry of a pair, has an
\* ordinal above min(N, M); and with more programs than parts the returned
\* outcome holds the entries of M pairs only and is the total over M.
C17_PositionalMapping ==
    /\ \A rec \in Logged \cup Live :
          /\ rec.ord <= Min(NumPrograms, NumParts)
          /\ rec.program_code = programs.items[rec.ord]
          /\ rec.part_question = parts.items[rec.ord]
    /\ \A x \in 1..Len(pair_log) : pair_log[x].ord = x
    /\ \A x \in 1..Len(all_justifications) :
          all_justifications[x].prefix = "P" =>
              all_justifications[x].ord <= Min(NumPrograms, NumParts)
    /\ (Graded /\ NumPrograms > NumParts) =>
          /\ Len(pair_log) = NumParts
          /\ \A x \in 1..Len(result.items) : result.items[x].prefix = "P"
          /\ result.score = RatDivInt(total_score, NumParts)
          /\ total_score = SeqSum([x \in 1..Len(pair_log) |->
                                     RatAdd(pair_log[x].after,
                                            [n |-> 0 - pair_log[x].before.n,
                                             d |-> pair_log[x].before.d])])

\* two programs for one part: the second program is dropped
C17_Witness ==
    /\ Graded /\ NumPrograms = 2 /\ NumParts = 1
    /\ Len(pair_log) = 1 /\ result.score # Zero

\* The stage a call belongs to.
StageOf(call) ==
    CASE call = "detect_language" -> 1
      [] call = "fix_code" -> 2
      [] call = "requires_input" -> 3
      [] call \in {"static_judgment", "generate_test_cases"} -> 4
      [] call = "intent_check" -> 5
      [] call \in SandboxCalls -> 6

\* C18: the calls made for a pair follow the order detection, repair,
\* input-requirement check, then either the static judgment or test
\* generation, intent check and sandbox launches, each stage reached only
\* through the one before it; the branch is chosen by the repaired text;
\* the total is touched only when the pair ends; and a pair is started
\* only when every pair before it has ended.
C18_StageOrder ==
    /\ \A x \in 1..Len(pair.calls) :
          /\ x > 1 => StageOf(pair.calls[x - 1]) \in
                          {StageOf(pair.calls[x]) - 1, StageOf(pair.calls[x])}
          /\ x = 1 => pair.calls[x] = "detect_language"
          /\ pair.calls[x] \in {"static_judgment", "generate_test_cases"}
                \cup {"detect_language", "fix_code", "requires_input", "intent_check"} =>
                Count(pair.calls, pair.calls[x]) = 1
    /\ ~(Made(pair, {"static_judgment"}) /\ Made(pair, {"generate_test_cases"}))
    /\ pc = "testgen" => RequiresInput(fixed_code)
    /\ pc = "static" => ~RequiresInput(fixed_code)
    /\ pair.path \in {"static", "dynamic", "intent_rejected"} =>
          Made(pair, {"requires_input"})
    /\ pair.started /\ pc \notin {"loop", "raised"} => total_score = pair.before
    /\ pair.started => Len(pair_log) = i /\ (\A x \in 1..i : pair_log[x].ord = x)

\* the second pair is in its diagnostic pass while the first has ended
C18_Witness ==
    pc = "eval_exec" /\ i = 1 /\ Len(pair_log) = 1 /\ pair_log[1].path = "static"

NamesSupported(lang) ==
    \/ \E w \in {<<"c", "p", "p">>, <<"c", "+", "+">>,
                  <<"c", " ", "p", "l", "u", "s", " ", "p", "l", "u", "s">>} : Contains(lang, w)
    \/ lang \in {<<"p", "y", "t", "h", "o", "n">>, <<"j", "a", "v", "a">>, <<"c">>}

\* C20: the detected language is one of python, c, c++, java and
\* unsupported; a label mentioning a C++ variant gives c++, the labels
\* python, java and c give themselves, and a label naming none of the four
\* languages gives unsupported.
C20_ClosedLabelSet ==
    ret # NoRet =>
        LET lang == Lower(Strip(arg.label)) IN
        /\ ret[1] \in {"python", "c", "c++", "java", "unsupported"}
        /\ Contains(lang, <<"c", "+", "+">>) \/ Contains(lang, <<"c", "p", "p">>) => ret[1] = "c++"
        /\ lang = <<"p", "y", "t", "h", "o", "n">> => ret[1] = "python"
        /\ lang = <<"j", "a", "v", "a">> => ret[1] = "java"
        /\ lang = <<"c">> => ret[1] = "c"
        /\ ~NamesSupported(lang) => ret[1] = "unsupported"

\* The phrasing of an output.  It is negative when it holds a negation of
\* primality (not prime, not a prime, composite, false) and no affirmation
\* (is prime, is a prime, true); affirmative the other way round.
Negates(output) ==
    \E phrase \in {<<"not", "prime">>, <<"not", "a", "prime">>, <<"composite">>, <<"false">>} :
        Contains(LowerWords(output), phrase)
Affirms(output) ==
    \E phrase \in {<<"is", "prime">>, <<"is", "a", "prime">>, <<"true">>} :
        Contains(LowerWords(output), phrase)
SaysNegative(output) == Negates(output) /\ ~Affirms(output)
SaysAffirmative(output) == Affirms(output) /\ ~Negates(output)
ExpectsAffirmative(expected) ==
    Lower(Strip(expected)) \in {<<"t", "r", "u", "e">>, <<"1">>}

\* C21: with an affirmative expected value an affirmative output is marked
\* passed and a negative output is not; with a negative expected value
\* only outputs holding a negation are marked passed.
C21_PhrasingAgrees ==
    ret # NoRet =>
        /\ ExpectsAffirmative(arg.expected) /\ SaysAffirmative(arg.output) => ret[1]
        /\ ExpectsAffirmative(arg.expected) /\ SaysNegative(arg.output) => ~ret[1]
        /\ ~ExpectsAffirmative(arg.expected) /\ ret[1] => Negates(arg.output)

\* C22: a returned outcome of the grading loop holds exactly one entry
\* for each part: one for each mapped pair, whatever path the pair took,
\* and one for each unmatched part.
C22_OneEntryPerPart ==
    Graded =>
        /\ Len(result.items) = Max(NumParts, Min(NumPrograms, NumParts))
        /\ \A n \in 1..Min(NumPrograms, NumParts) :
              Len(SelectSeq(result.items, LAMBDA e : e.prefix = "P" /\ e.ord = n)) = 1
        /\ \A n \in (Min(NumPrograms, NumParts) + 1)..NumParts :
              Len(SelectSeq(result.items, LAMBDA e : e.prefix = "Part" /\ e.ord = n)) = 1

\* The pair in progress passed the intent check, found the engine
\* reachable in both passes, and has left them.
TestedPair ==
    /\ pair.started /\ pair.path = "dynamic" /\ pc \in {"add_score", "loop"}
    /\ pair.cause \notin {"engine_unreachable", "diagnostic_pass", "test_case_shape"}

\* C23: a pair that passed the intent check with T test cases and a
\* reachable engine had T launches by the counting pass and T by the
\* diagnostic pass, none of the latter before the last of the former; its
\* score is the count of the first pass over T, and its entry reports that
\* count.
C23_TwoPassesOfT ==
    /\ \A x, y \in 1..Len(pair.calls) :
          x < y /\ pair.calls[x] = "sandbox_eval" => pair.calls[y] # "sandbox_run"
    /\ pc \in {"eval", "eval_exec"} =>
          /\ Count(pair.calls, "sandbox_run") = Len(test_cases.items)
          /\ passed_count = pair.accepted
          /\ AsRat(score) = Rat(pair.accepted, Len(test_cases.items))
    /\ TestedPair =>
          /\ Count(pair.calls, "sandbox_run") = Len(test_cases.items)
          /\ Count(pair.calls, "sandbox_eval") = Len(test_cases.items)
          /\ AsRat(score) = Rat(pair.accepted, Len(test_cases.items))
          /\ TextsOf(i + 1) =
                <<[text |-> "Passed tests", passed |-> pair.accepted,
                   total |-> Len(test_cases.items)]>>

====
